---- MODULE Spec2Model ----
(***************************************************************************)
(* Model of src/app.py: the /manual and /scan request handlers of the     *)
(* food-composition scoring service, the feedback classifier, the         *)
(* in-memory product catalog (products_df) and the Product table.         *)
(*                                                                         *)
(* Text is a sequence of one-character strings, so that str.strip,        *)
(* str.lower and float() are computed rather than assumed.  A float is a  *)
(* record [k, n]: k = "fin" with the integer value n, or k = "nan",       *)
(* "inf", "-inf".  Scores and nutrient values are integer-valued floats.  *)
(***************************************************************************)
EXTENDS Integers, Sequences, FiniteSets, TLC

VARIABLES catalog, store, served, mpc, mreq, spc, sreq

vars == <<catalog, store, served, mpc, mreq, spc, sreq>>

\* ------------------------------------------------------------------ bounds

\* Manual requests served in one behaviour of Spec.
MaxRequests == 2

\* Longest barcode text typed into the scan form.
MaxLen == 2

\* Rows of a catalog in SpecScan.
MaxRows == 2

\* Scores the model may return lie within ScoreSpan of the two thresholds.
ScoreSpan == 3

\* ------------------------------------------------------------------- text

UpperLetters ==
    <<"A","B","C","D","E","F","G","H","I","J","K","L","M",
      "N","O","P","Q","R","S","T","U","V","W","X","Y","Z">>

LowerLetters ==
    <<"a","b","c","d","e","f","g","h","i","j","k","l","m",
      "n","o","p","q","r","s","t","u","v","w","x","y","z">>

Digits == <<"0","1","2","3","4","5","6","7","8","9">>

Whitespace == {" ", "\t", "\n", "\r"}

LowerChar(c) ==
    IF \E i \in 1..Len(UpperLetters) : UpperLetters[i] = c
    THEN LowerLetters[CHOOSE i \in 1..Len(UpperLetters) : UpperLetters[i] = c]
    ELSE c

\* str.lower()
Lower(s) == [i \in 1..Len(s) |-> LowerChar(s[i])]

RECURSIVE LStrip(_)
LStrip(s) ==
    IF s # <<>> /\ Head(s) \in Whitespace THEN LStrip(Tail(s)) ELSE s

RECURSIVE RStrip(_)
RStrip(s) ==
    IF s # <<>> /\ s[Len(s)] \in Whitespace
    THEN RStrip(SubSeq(s, 1, Len(s) - 1))
    ELSE s

\* str.strip()
Strip(s) == RStrip(LStrip(s))

\* str(n) of a non-negative integer.
RECURSIVE IntToStr(_)
IntToStr(n) ==
    IF n < 10 THEN <<Digits[n + 1]>>
    ELSE IntToStr(n \div 10) \o <<Digits[(n % 10) + 1]>>

IsDigit(c) == \E i \in 1..Len(Digits) : Digits[i] = c

DigitValue(c) == (CHOOSE i \in 1..Len(Digits) : Digits[i] = c) - 1

RECURSIVE DigitsValue(_)
DigitsValue(s) ==
    IF s = <<>> THEN 0
    ELSE 10 * DigitsValue(SubSeq(s, 1, Len(s) - 1)) + DigitValue(s[Len(s)])

\* ---------------------------------------------------------- JSON and float

\* A JSON value of the request body: t is "num" (a number, value n), "str"
\* (text s), "null", "big" (an integer literal beyond the float range),
\* "jnan" / "jinf" (the literals NaN and Infinity, or 1e400, which json.loads
\* accepts) or "list".
Num(n) == [t |-> "num", n |-> n, s |-> <<>>]
Str(s) == [t |-> "str", n |-> 0, s |-> s]
Null   == [t |-> "null", n |-> 0, s |-> <<>>]
BigInt == [t |-> "big", n |-> 0, s |-> <<>>]
JNaN   == [t |-> "jnan", n |-> 0, s |-> <<>>]
JInf   == [t |-> "jinf", n |-> 0, s |-> <<>>]
List   == [t |-> "list", n |-> 0, s |-> <<>>]

Fin(n)      == [exc |-> "", k |-> "fin", n |-> n]
NonFin(k)   == [exc |-> "", k |-> k, n |-> 0]
Raises(exc) == [exc |-> exc, k |-> "", n |-> 0]

\* float(text): surrounding whitespace is ignored, an optional sign, then
\* decimal digits, or nan / inf / infinity in any case.  (Fractions and
\* exponents are not written by any text the model sends.)
ParseFloat(s) ==
    LET t    == Lower(Strip(s))
        sgn  == IF t # <<>> /\ Head(t) \in {"+", "-"} THEN Head(t) ELSE ""
        body == IF sgn = "" THEN t ELSE Tail(t)
    IN  IF body = <<"n","a","n">> THEN NonFin("nan")
        ELSE IF body \in {<<"i","n","f">>, <<"i","n","f","i","n","i","t","y">>}
        THEN NonFin(IF sgn = "-" THEN "-inf" ELSE "inf")
        ELSE IF body # <<>> /\ \A i \in 1..Len(body) : IsDigit(body[i])
        THEN Fin(IF sgn = "-" THEN 0 - DigitsValue(body) ELSE DigitsValue(body))
        ELSE Raises("ValueError")

\* float(v) of a JSON value.
Float(v) ==
    CASE v.t = "num"  -> Fin(v.n)
      [] v.t = "jnan" -> NonFin("nan")
      [] v.t = "jinf" -> NonFin("inf")
      [] v.t = "str"  -> ParseFloat(v.s)
      [] v.t = "big"  -> Raises("OverflowError")
      [] OTHER        -> Raises("TypeError")

\* ------------------------------------------------------------- classifier

\* A faulty variant of get_health_feedback: 40 falls in the lower band.
get_health_feedback_le(score) ==
    IF score <= 40 THEN "Poor nutritional quality"
    ELSE IF 40 <= score /\ score < 70 THEN "Moderate nutritional quality"
    ELSE "Excellent nutritional quality"

get_health_feedback(score) ==
    IF score < 40 THEN "Poor nutritional quality"
    ELSE IF 40 <= score /\ score < 70 THEN "Moderate nutritional quality"
    ELSE "Excellent nutritional quality"

\* ---------------------------------------------------- responses and rows

\* A response of /manual: the HTTP status, which return statement produced
\* it, and the JSON members it carries.
Resp(code, kind, score, feedback, missing) ==
    [code |-> code, kind |-> kind, score |-> score, feedback |-> feedback,
     missing |-> missing]

NoResp == Resp(0, "", <<>>, "", <<>>)

\* manual() as it is before a request is taken: no local is bound yet.
IdleManual ==
    [method |-> "", is_json |-> FALSE, body |-> "", data |-> [f \in {} |-> Null],
     missing |-> <<>>, features |-> <<>>, prediction |-> <<>>, feedback |-> "",
     writes |-> 0, committed |-> FALSE, resp |-> NoResp, stages |-> <<>>]

\* A request entering manual(): r gives request.method, request.is_json, the
\* shape of the body ("object", "null", "scalar", "malformed") and, for an
\* object, its members.
NewManual(r) ==
    [IdleManual EXCEPT !.method = r.method, !.is_json = r.is_json,
                       !.body = r.body, !.data = r.data]

\* ------------------------------------------------------------ manual path

required_fields ==
    <<"calories", "sugar", "fat", "saturated_fat", "proteins", "fibers", "sodium">>

\* The keys read by the seven float(...) calls, in the order of the list.
ManualFeatureKeys ==
    <<"calories", "sugar", "fat", "saturated_fat", "proteins", "fibers", "sodium">>

\* A faulty variant of MissingFields: a null value is not reported.
MissingFieldsAbsentOnly(data) ==
    LET absent(f) == f \notin DOMAIN data
    IN  SelectSeq(required_fields, absent)

MissingFields(data) ==
    LET absent(f) == f \notin DOMAIN data \/ data[f].t = "null"
    IN  SelectSeq(required_fields, absent)

\* The list of seven float(...) calls: evaluated left to right, the first call
\* that raises ends the evaluation.  exc is the exception raised ("" when none).
CoerceFeatures(data) ==
    LET got == [i \in 1..Len(ManualFeatureKeys) |-> Float(data[ManualFeatureKeys[i]])]
        bad == {i \in 1..Len(got) : got[i].exc # ""}
    IN  IF bad = {}
        THEN [exc |-> "", features |-> [i \in 1..Len(got) |-> [k |-> got[i].k, n |-> got[i].n]]]
        ELSE [exc |-> got[CHOOSE i \in bad : \A j \in bad : i <= j].exc, features |-> <<>>]

\* except (ValueError, TypeError)
InvalidNumberCaught(exc) == exc \in {"ValueError", "TypeError"}

UnknownProduct ==
    <<"U","n","k","n","o","w","n"," ","P","r","o","d","u","c","t">>

\* data.get('name', 'Unknown Product')
NameOf(data) == IF "name" \in DOMAIN data THEN data["name"] ELSE Str(UnknownProduct)

\* Product(...): the row handed to db.session.add; id is the autoincrement key.
ProductRow(id, data, features, prediction) ==
    [id |-> id, name |-> NameOf(data),
     calories |-> features[1], sugar |-> features[2], fat |-> features[3],
     saturated_fat |-> features[4], proteins |-> features[5],
     fibers |-> features[6], sodium |-> features[7],
     health_score |-> prediction]

\* name is nullable=False: a commit of a row whose name is None cannot succeed.
CommitCanSucceed(row) == row.name.t # "null"

\* A faulty variant of StoreAfterCommit: the row is added again on success.
StoreAfterCommitTwice(rows, row, ok) ==
    IF ok THEN Append(Append(rows, row), row) ELSE rows

\* db.session.add + commit: one transaction, all or nothing.
StoreAfterCommit(rows, row, ok) == IF ok THEN Append(rows, row) ELSE rows

\* A faulty variant of AfterCommit: a failed write reaches the outermost except.
AfterCommitRaise(ok) == IF ok THEN "respond" ELSE "unexpected"

\* The except clause around the write: the error is printed and swallowed.
AfterCommit(ok) == "respond"

\* What model.predict may do with a vector: raise, or return one of scores.
PredictOutcomes(scores) ==
    {[ok |-> FALSE, score |-> 0]} \cup {[ok |-> TRUE, score |-> s] : s \in scores}

ManualFinish(req, resp, stage) ==
    /\ mpc' = "done"
    /\ mreq' = [req EXCEPT !.resp = resp, !.stages = Append(req.stages, stage)]

ManualStep(req, pc, stage) ==
    /\ mpc' = pc
    /\ mreq' = [req EXCEPT !.stages = Append(req.stages, stage)]

\* A client sends a request to /manual.
ManualRequest(requests) ==
    /\ mpc \in {"idle", "done"}
    /\ served < MaxRequests
    /\ \E r \in requests : mreq' = NewManual(r)
    /\ mpc' = "transport"
    /\ served' = served + 1
    /\ UNCHANGED <<catalog, store, spc, sreq>>

\* request.method and request.is_json
ManualTransport ==
    /\ mpc = "transport"
    /\ IF mreq.method = "GET"
       THEN ManualFinish(mreq, Resp(200, "template", <<>>, "", <<>>), "transport")
       ELSE IF ~mreq.is_json
       THEN ManualFinish(mreq, Resp(415, "not_json", <<>>, "", <<>>), "transport")
       ELSE ManualStep(mreq, "parse", "transport")
    /\ UNCHANGED <<catalog, store, served, spc, sreq>>

\* request.get_json(): a body that does not parse raises, which the outermost
\* except turns into the generic 500; a body of null is None.
ManualParse ==
    /\ mpc = "parse"
    /\ IF mreq.body = "malformed"
       THEN ManualFinish(mreq, Resp(500, "unexpected", <<>>, "", <<>>), "parse")
       ELSE IF mreq.body = "null"
       THEN ManualFinish(mreq, Resp(400, "no_data", <<>>, "", <<>>), "parse")
       ELSE ManualStep(mreq, "required", "parse")
    /\ UNCHANGED <<catalog, store, served, spc, sreq>>

\* The required-fields check; `field not in data` raises TypeError on a number.
ManualRequired ==
    /\ mpc = "required"
    /\ IF mreq.body = "scalar"
       THEN ManualFinish(mreq, Resp(500, "unexpected", <<>>, "", <<>>), "required")
       ELSE LET missing == MissingFields(mreq.data)
            IN  IF missing # <<>>
                THEN ManualFinish([mreq EXCEPT !.missing = missing],
                                  Resp(400, "missing", <<>>, "", missing), "required")
                ELSE ManualStep(mreq, "coerce", "required")
    /\ UNCHANGED <<catalog, store, served, spc, sreq>>

\* The conversion to floats.
ManualCoerce ==
    /\ mpc = "coerce"
    /\ LET c == CoerceFeatures(mreq.data)
       IN  IF c.exc = ""
           THEN ManualStep([mreq EXCEPT !.features = c.features], "predict", "coerce")
           ELSE IF InvalidNumberCaught(c.exc)
           THEN ManualFinish(mreq, Resp(400, "invalid_number", <<>>, "", <<>>), "coerce")
           ELSE ManualFinish(mreq, Resp(500, "unexpected", <<>>, "", <<>>), "coerce")
    /\ UNCHANGED <<catalog, store, served, spc, sreq>>

\* model.predict([features])[0] and get_health_feedback(prediction)
ManualPredict(scores) ==
    /\ mpc = "predict"
    /\ \E out \in PredictOutcomes(scores) :
         IF out.ok
         THEN ManualStep([mreq EXCEPT !.prediction = <<out.score>>,
                                      !.feedback = get_health_feedback(out.score)],
                         "record", "predict")
         ELSE ManualFinish(mreq, Resp(500, "prediction_failed", <<>>, "", <<>>), "predict")
    /\ UNCHANGED <<catalog, store, served, spc, sreq>>

\* The write of the Product row: it commits, or it fails and leaves the table
\* as it was.
ManualRecord ==
    /\ mpc = "record"
    /\ LET row == ProductRow(Len(store) + 1, mreq.data, mreq.features, mreq.prediction[1])
       IN  \E ok \in {b \in BOOLEAN : b => CommitCanSucceed(row)} :
             /\ store' = StoreAfterCommit(store, row, ok)
             /\ LET req == [mreq EXCEPT !.writes = @ + 1, !.committed = ok]
                IN  IF AfterCommit(ok) = "respond"
                    THEN ManualStep(req, "respond", "record")
                    ELSE ManualFinish(req, Resp(500, "unexpected", <<>>, "", <<>>), "record")
    /\ UNCHANGED <<catalog, served, spc, sreq>>

\* jsonify({'score': prediction, 'feedback': feedback})
ManualRespond ==
    /\ mpc = "respond"
    /\ ManualFinish(mreq, Resp(200, "ok", mreq.prediction, mreq.feedback, <<>>), "respond")
    /\ UNCHANGED <<catalog, store, served, spc, sreq>>

\* -------------------------------------------------------------- scan path

\* A cell of the barcode column as read_csv leaves it: an integer (a column
\* of digits is read as int64) or text.
IntCell(n) == [t |-> "int", n |-> n, s |-> <<>>]

\* A faulty variant of ScanColumns: the first two columns change places.
ScanColumnsSwapped ==
    <<"sugar", "calories", "fat", "saturated_fat", "proteins", "fibers", "sodium">>

\* The nutrient columns selected from the matched row, in this order.
ScanColumns ==
    <<"calories", "sugar", "fat", "saturated_fat", "proteins", "fibers", "sodium">>

\* astype(str) on one cell.
AsTypeStr(cell) == IF cell.t = "int" THEN Str(IntToStr(cell.n)) ELSE cell

\* products_df['barcode'] = products_df['barcode'].astype(str)
NormalizeBarcodes(cat) ==
    [i \in 1..Len(cat) |-> [cat[i] EXCEPT !.barcode = AsTypeStr(@)]]

\* A faulty variant of MatchRows: the catalog side is not lower-cased.
MatchRowsNoLower(cat, barcode) ==
    LET hit(i) == Strip(cat[i].barcode.s) = Lower(Strip(barcode))
    IN  SelectSeq([i \in 1..Len(cat) |-> i], hit)

\* products_df[products_df['barcode'].str.strip().str.lower()
\*             == barcode.strip().lower()]: the matching rows, in catalog order.
MatchRows(cat, barcode) ==
    LET hit(i) == Lower(Strip(cat[i].barcode.s)) = Lower(Strip(barcode))
    IN  SelectSeq([i \in 1..Len(cat) |-> i], hit)

\* row[[...]].values[0]: the selected columns of the first matching row.
RowFeatures(row) == [i \in 1..Len(ScanColumns) |-> row.nutrients[ScanColumns[i]]]

NoMessage == [product |-> <<>>, score |-> <<>>, feedback |-> ""]

\* scan() before a request is taken.
IdleScan ==
    [method |-> "", has_barcode |-> FALSE, barcode |-> <<>>, rows |-> <<>>,
     features |-> <<>>, prediction |-> <<>>, feedback |-> "",
     message |-> NoMessage, error |-> "", resp |-> "", stages |-> <<>>]

\* A request entering scan(): request.method and the form's barcode field
\* (has_barcode is FALSE when the form has none and form.get returns None).
NewScan(r) ==
    [IdleScan EXCEPT !.method = r.method, !.has_barcode = r.has_barcode,
                     !.barcode = r.barcode]

ScanFinish(req, resp, stage) ==
    /\ spc' = "done"
    /\ sreq' = [req EXCEPT !.resp = resp, !.stages = Append(req.stages, stage)]

ScanStep(req, pc, stage) ==
    /\ spc' = pc
    /\ sreq' = [req EXCEPT !.stages = Append(req.stages, stage)]

\* A client sends a request to /scan.
ScanRequest(requests) ==
    /\ spc \in {"idle", "done"}
    /\ \E r \in requests : sreq' = NewScan(r)
    /\ spc' = "enter"
    /\ UNCHANGED <<catalog, store, served, mpc, mreq>>

\* message = None, error = None, the test of request.method, form.get
ScanEnter ==
    /\ spc = "enter"
    /\ IF sreq.method = "POST"
       THEN ScanStep(sreq, "normalize", "enter")
       ELSE ScanStep(sreq, "render", "enter")
    /\ UNCHANGED <<catalog, store, served, mpc, mreq>>

\* The barcode column is replaced by its text form.
ScanNormalize ==
    /\ spc = "normalize"
    /\ catalog' = NormalizeBarcodes(catalog)
    /\ ScanStep(sreq, "match", "normalize")
    /\ UNCHANGED <<store, served, mpc, mreq>>

\* The lookup; barcode.strip() raises AttributeError when barcode is None,
\* and nothing in scan() catches it.
ScanMatch ==
    /\ spc = "match"
    /\ IF ~sreq.has_barcode
       THEN ScanFinish(sreq, "unhandled", "match")
       ELSE ScanStep([sreq EXCEPT !.rows = MatchRows(catalog, sreq.barcode)],
                     "score", "match")
    /\ UNCHANGED <<catalog, store, served, mpc, mreq>>

\* if not row.empty: features, model.predict, get_health_feedback, message;
\* else: error.  model.predict is called outside any try.  round(x, 2) leaves
\* the integer-valued scores of the model as they are.
ScanScore(scores) ==
    /\ spc = "score"
    /\ IF sreq.rows # <<>>
       THEN LET row      == catalog[sreq.rows[1]]
                features == RowFeatures(row)
            IN  \E out \in PredictOutcomes(scores) :
                  IF out.ok
                  THEN ScanStep([sreq EXCEPT
                                   !.features = features,
                                   !.prediction = <<out.score>>,
                                   !.feedback = get_health_feedback(out.score),
                                   !.message = [product |-> row.product_name,
                                                score |-> <<out.score>>,
                                                feedback |-> get_health_feedback(out.score)]],
                                "render", "score")
                  ELSE ScanFinish([sreq EXCEPT !.features = features], "unhandled", "score")
       ELSE ScanStep([sreq EXCEPT !.error = "Product not found in DATABASE."],
                     "render", "score")
    /\ UNCHANGED <<catalog, store, served, mpc, mreq>>

\* render_template("scanner.html", message=message, error=error)
ScanRender ==
    /\ spc = "render"
    /\ ScanFinish(sreq, "page", "render")
    /\ UNCHANGED <<catalog, store, served, mpc, mreq>>

\* ------------------------------------------------------------------ inputs

Fields == {required_fields[i] : i \in 1..Len(required_fields)}

\* The nutrient values of a well-formed payload (each field its own value).
FieldValue ==
    [calories |-> 250, sugar |-> 5, fat |-> 10, saturated_fat |-> 2,
     proteins |-> 8, fibers |-> 3, sodium |-> 400]

\* The payload whose fields in absent are left out and whose fields in nulls
\* are null.
Payload(absent, nulls) ==
    [f \in Fields \ absent |-> IF f \in nulls THEN Null ELSE Num(FieldValue[f])]

WithName(data, v) ==
    [k \in DOMAIN data \cup {"name"} |-> IF k = "name" THEN v ELSE data[k]]

\* Values a field may carry instead of a plain number.
OddValues ==
    {Str(<<"1","2">>), Str(<<" ","7"," ">>), Str(<<"-","3">>), Str(<<"a","b","c">>),
     Str(<<>>), Str(<<"n","a","n">>), Str(<<"N","a","N">>), Str(<<"i","n","f">>),
     Str(<<"-","I","n","f","i","n","i","t","y">>), JNaN, JInf, BigInt, List}

\* Every choice of absent and null fields; with at most one field absent or
\* null, one present field may carry an odd value; a complete payload may
\* carry two, and a name.
WidePayloads ==
    LET splits == {p \in (SUBSET Fields) \X (SUBSET Fields) : p[1] \cap p[2] = {}}
        plain  == {Payload(p[1], p[2]) : p \in splits}
        few    == {p \in splits : Cardinality(p[1] \cup p[2]) <= 1}
        one    == UNION {{[Payload(p[1], p[2]) EXCEPT ![g] = v] :
                            g \in Fields \ (p[1] \cup p[2]), v \in OddValues} : p \in few}
        full   == {d \in one : DOMAIN d = Fields /\ \A f \in Fields : d[f].t # "null"}
        two    == {[d EXCEPT ![g] = v] : d \in full, g \in Fields, v \in OddValues}
        named  == {WithName(d, v) : d \in full \cup {Payload({}, {})},
                                    v \in {Str(<<"B","a","r">>), Null}}
    IN  plain \cup one \cup two \cup named

NoData == [f \in {} |-> Null]

ManualReq(method, is_json, body, data) ==
    [method |-> method, is_json |-> is_json, body |-> body, data |-> data]

WideManualRequests ==
    {ManualReq("POST", TRUE, "object", d) : d \in WidePayloads}
    \cup {ManualReq("POST", TRUE, b, NoData) : b \in {"null", "scalar", "malformed"}}
    \cup {ManualReq("POST", FALSE, b, NoData) : b \in {"object", "malformed"}}
    \cup {ManualReq("GET", FALSE, "malformed", NoData)}

\* The requests of Spec: a complete payload with and without a name, one with
\* a null name, the payload without sugar and sodium, payloads with one odd
\* value, and the requests that carry no object.
FewManualRequests ==
    {ManualReq("POST", TRUE, "object", d) :
       d \in {Payload({}, {}),
              WithName(Payload({}, {}), Str(<<"B","a","r">>)),
              WithName(Payload({}, {}), Null),
              Payload({"sugar", "sodium"}, {}),
              Payload({"fat"}, {"fibers"}),
              [Payload({}, {}) EXCEPT !["calories"] = Str(<<"a","b","c">>)],
              [Payload({}, {}) EXCEPT !["sugar"] = Str(<<"n","a","n">>)],
              [Payload({}, {}) EXCEPT !["sodium"] = BigInt]}}
    \cup {ManualReq("POST", TRUE, b, NoData) : b \in {"null", "scalar", "malformed"}}
    \cup {ManualReq("POST", FALSE, "object", NoData), ManualReq("GET", FALSE, "malformed", NoData)}

\* Scores model.predict may return: all integers within ScoreSpan of the
\* thresholds, or just the ones around them.
WideScores == (40 - ScoreSpan)..(70 + ScoreSpan)

FewScores == {39, 70}

\* Texts of at most n characters over the letters a, A and the blank.
RECURSIVE Texts(_)
Texts(n) ==
    IF n = 0 THEN {<<>>}
    ELSE Texts(n - 1) \cup {Append(s, c) : s \in Texts(n - 1), c \in {"a", "A", " "}}

CatalogTexts ==
    {<<"a">>, <<"A">>, <<" ","a">>, <<"A","a">>, <<" ","A"," ">>}

CatalogInts == {7, 42}

\* The catalog whose barcode column holds cells: row i is product "P<i>" with
\* nutrient values of its own.
Catalog(cells) ==
    [i \in 1..Len(cells) |->
       [barcode |-> cells[i],
        product_name |-> <<"P">> \o IntToStr(i),
        nutrients |-> [f \in Fields |->
                         [k |-> "fin",
                          n |-> 100 * i + CHOOSE j \in 1..Len(required_fields) :
                                            required_fields[j] = f]]]]

\* A column is all integers or all text.
ColumnsOf(n) ==
    [1..n -> {IntCell(b) : b \in CatalogInts}] \cup [1..n -> {Str(s) : s \in CatalogTexts}]

WideCatalogs == {Catalog(c) : c \in UNION {ColumnsOf(n) : n \in 1..MaxRows}}

FewCatalogs ==
    {Catalog(<<IntCell(7), IntCell(42)>>),
     Catalog(<<Str(<<" ","A"," ">>), Str(<<"a">>)>>)}

ScanReq(method, has_barcode, barcode) ==
    [method |-> method, has_barcode |-> has_barcode, barcode |-> barcode]

WideBarcodes ==
    Texts(MaxLen) \cup {IntToStr(n) : n \in CatalogInts}
                  \cup {<<" ">> \o IntToStr(n) : n \in CatalogInts}

WideScanRequests ==
    {ScanReq("POST", TRUE, b) : b \in WideBarcodes}
    \cup {ScanReq("POST", FALSE, <<>>), ScanReq("GET", FALSE, <<>>)}

FewScanRequests ==
    {ScanReq("POST", TRUE, b) : b \in {<<"7">>, <<"a"," ">>, <<"9">>}}
    \cup {ScanReq("POST", FALSE, <<>>), ScanReq("GET", FALSE, <<>>)}

\* ---------------------------------------------------------- specifications

\* The process after start-up: the catalog is loaded, the table is empty and
\* no request is being served.
Init ==
    /\ catalog \in FewCatalogs
    /\ store = <<>>
    /\ served = 0
    /\ mpc = "idle" /\ mreq = IdleManual
    /\ spc = "idle" /\ sreq = IdleScan

\* One manual and one scan request at a time, their steps interleaved.
Next ==
    \/ ManualRequest(FewManualRequests)
    \/ ManualTransport
    \/ ManualParse
    \/ ManualRequired
    \/ ManualCoerce
    \/ ManualPredict(FewScores)
    \/ ManualRecord
    \/ ManualRespond
    \/ ScanRequest(FewScanRequests)
    \/ ScanEnter
    \/ ScanNormalize
    \/ ScanMatch
    \/ ScanScore(FewScores)
    \/ ScanRender

Spec == Init /\ [][Next]_vars

\* One manual request, drawn from the wide set, taken through manual().
InitManual ==
    /\ catalog = Catalog(<<IntCell(7), IntCell(42)>>)
    /\ store = <<>>
    /\ served = 0
    /\ mpc = "transport" /\ mreq \in {NewManual(r) : r \in WideManualRequests}
    /\ spc = "idle" /\ sreq = IdleScan

NextManual ==
    \/ ManualTransport
    \/ ManualParse
    \/ ManualRequired
    \/ ManualCoerce
    \/ ManualPredict(WideScores)
    \/ ManualRecord
    \/ ManualRespond

SpecManual == InitManual /\ [][NextManual]_vars

\* One scan request, drawn from the wide set, against any of the catalogs.
InitScan ==
    /\ catalog \in WideCatalogs
    /\ store = <<>>
    /\ served = 0
    /\ mpc = "idle" /\ mreq = IdleManual
    /\ spc = "enter" /\ sreq \in {NewScan(r) : r \in WideScanRequests}

NextScan ==
    \/ ScanEnter
    \/ ScanNormalize
    \/ ScanMatch
    \/ ScanScore(FewScores)
    \/ ScanRender

SpecScan == InitScan /\ [][NextScan]_vars

\* ------------------------------------------------------------- properties

\* The seven nutrients in the order the scoring model expects them.
NutrientOrder ==
    <<"calories", "sugar", "fat", "saturated_fat", "proteins", "fibers", "sodium">>

NutrientNames == {NutrientOrder[i] : i \in 1..Len(NutrientOrder)}

\* The stage was entered while serving the request.
Ran(req, stage) == \E i \in 1..Len(req.stages) : req.stages[i] = stage

\* The nutrient fields that are absent from a payload or null in it.
MissingSet(data) == {f \in NutrientNames : f \notin DOMAIN data \/ data[f] = Null}

\* The band of a score.
Band(s) ==
    CASE s < 40             -> "Poor nutritional quality"
      [] 40 <= s /\ s < 70  -> "Moderate nutritional quality"
      [] s >= 70            -> "Excellent nutritional quality"

\* A POST to /manual with a JSON object has been answered.
ObjectAnswered ==
    /\ mpc = "done"
    /\ mreq.method = "POST"
    /\ mreq.is_json
    /\ mreq.body = "object"

\* C1: on the manual path the stages fail fast in the order transport check,
\* required fields, numeric coercion, scoring, recording: a request that is
\* not JSON is rejected before the fields are examined; a missing field ends
\* the request with the missing-fields error before any coercion, scoring or
\* write; a failed coercion ends it with the invalid-number error before any
\* scoring or write; a failed scoring ends it with the scoring error before
\* any write.
C1_FailFastOrder ==
    (mpc = "done" /\ mreq.method = "POST") =>
      /\ ~mreq.is_json =>
           /\ mreq.resp.kind = "not_json"
           /\ ~Ran(mreq, "parse") /\ ~Ran(mreq, "required")
      /\ (mreq.is_json /\ mreq.body = "object" /\ MissingSet(mreq.data) # {}) =>
           /\ mreq.resp.kind = "missing"
           /\ ~Ran(mreq, "coerce") /\ ~Ran(mreq, "predict")
           /\ mreq.writes = 0 /\ store = <<>>
      /\ (/\ mreq.is_json /\ mreq.body = "object" /\ MissingSet(mreq.data) = {}
          /\ \E f \in NutrientNames : Float(mreq.data[f]).exc # "") =>
           /\ mreq.resp.kind = "invalid_number"
           /\ ~Ran(mreq, "predict")
           /\ mreq.writes = 0 /\ store = <<>>
      /\ (Ran(mreq, "predict") /\ mreq.prediction = <<>>) =>
           /\ mreq.resp.kind = "prediction_failed"
           /\ mreq.writes = 0 /\ store = <<>>

\* C2: when exactly the nutrient fields of a non-empty set M are absent or
\* null in the payload, the request fails with the missing-fields error and
\* the names it lists are exactly those of M, each once; when M is empty no
\* missing-fields error is produced.
C2_MissingReportedExactly ==
    ObjectAnswered =>
      LET M      == MissingSet(mreq.data)
          listed == mreq.resp.missing
      IN  /\ M # {} =>
               /\ mreq.resp.kind = "missing"
               /\ mreq.resp.code = 400
               /\ {listed[i] : i \in 1..Len(listed)} = M
               /\ Len(listed) = Cardinality(M)
          /\ M = {} => (mreq.resp.kind # "missing" /\ listed = <<>>)

\* sugar is absent and sodium is null, and both are reported.
C2_Witness ==
    /\ ObjectAnswered
    /\ "sugar" \notin DOMAIN mreq.data
    /\ "sodium" \in DOMAIN mreq.data
    /\ mreq.resp.kind = "missing"
    /\ mreq.resp.missing = <<"sugar", "sodium">>

\* C3: once scoring has succeeded on the manual path, the response is the
\* success response with the score the model produced and the band of that
\* score, whether the write of the row succeeded or failed.
C3_RecordFailureNotSurfaced ==
    (mpc = "done" /\ mreq.prediction # <<>>) =>
      mreq.resp = Resp(200, "ok", mreq.prediction, Band(mreq.prediction[1]), <<>>)

\* A request whose write failed was answered with its score.
C3_Witness ==
    /\ mpc = "done"
    /\ mreq.writes = 1
    /\ ~mreq.committed
    /\ store = <<>>
    /\ mreq.resp.kind = "ok"
    /\ mreq.resp.score = <<70>>

\* C4: the feedback of a score s is poor iff s < 40, moderate iff
\* 40 <= s < 70 and excellent iff s >= 70; 40 is moderate and 70 is excellent.
C4_FeedbackBands ==
    mreq.prediction # <<>> =>
      LET s == mreq.prediction[1]
          f == mreq.feedback
      IN  /\ f = "Poor nutritional quality" <=> s < 40
          /\ f = "Moderate nutritional quality" <=> (40 <= s /\ s < 70)
          /\ f = "Excellent nutritional quality" <=> s >= 70

\* The model returned exactly 40 and the feedback is the moderate band.
C4_Witness ==
    /\ mreq.prediction = <<40>>
    /\ mreq.feedback = "Moderate nutritional quality"

\* C5: whenever the scoring model is invoked, the vector passed to it has
\* seven values and position i holds the i-th nutrient, in the fixed order,
\* of the payload (manual) or of the matched catalog row (scan).
C5_VectorOrder ==
    /\ Ran(mreq, "predict") =>
         /\ Len(mreq.features) = 7
         /\ \A i \in 1..7 :
              LET v == Float(mreq.data[NutrientOrder[i]])
              IN  mreq.features[i] = [k |-> v.k, n |-> v.n]
    /\ (Ran(sreq, "score") /\ sreq.rows # <<>>) =>
         /\ Len(sreq.features) = 7
         /\ \A i \in 1..7 :
              sreq.features[i] = catalog[sreq.rows[1]].nutrients[NutrientOrder[i]]

\* Both handlers have called the model.
C5_Witness ==
    /\ Ran(mreq, "predict") /\ mreq.prediction # <<>>
    /\ Ran(sreq, "score") /\ sreq.prediction # <<>>

\* C6: a failure of the model call ends the request, on the manual path and
\* on the scan path, in a handled scoring-error response with no score, no
\* feedback and no write; it never escapes the handler.
C6_ScoringFailureHandled ==
    /\ (mpc = "done" /\ Ran(mreq, "predict") /\ mreq.prediction = <<>>) =>
         /\ mreq.resp = Resp(500, "prediction_failed", <<>>, "", <<>>)
         /\ mreq.writes = 0
    /\ (spc = "done" /\ Ran(sreq, "score") /\ sreq.rows # <<>> /\ sreq.prediction = <<>>) =>
         /\ sreq.resp # "unhandled"
         /\ sreq.message = NoMessage

\* A barcode as it is compared: lower-cased and trimmed.
Canon(s) == Strip(Lower(s))

\* C7: a scanned barcode resolves to a catalog row exactly when some catalog
\* barcode equals it after both are trimmed and lower-cased, the row used is
\* the first such row, and every other input that is equal to it after
\* trimming and lower-casing has the same outcome.
C7_Resolution ==
    (Ran(sreq, "match") /\ sreq.has_barcode) =>
      LET hits == {i \in 1..Len(catalog) :
                     Canon(catalog[i].barcode.s) = Canon(sreq.barcode)}
      IN  /\ sreq.rows # <<>> <=> hits # {}
          /\ hits # {} => (sreq.rows[1] \in hits /\ \A j \in hits : sreq.rows[1] <= j)
          /\ \A b \in WideBarcodes :
               Canon(b) = Canon(sreq.barcode) => MatchRows(catalog, b) = sreq.rows

\* "a " was scanned, the catalog holds " A " and then "a", and the page shows
\* the first of the two.
C7_Witness ==
    /\ spc = "done"
    /\ sreq.resp = "page"
    /\ sreq.barcode = <<"a", " ">>
    /\ Len(catalog) = 2
    /\ catalog[1].barcode.s = <<" ", "A", " ">>
    /\ catalog[2].barcode.s = <<"a">>
    /\ sreq.rows = <<1, 2>>
    /\ sreq.message.product = catalog[1].product_name

\* C8: the table is append-only and gains exactly one row per manual request
\* whose scoring succeeded and whose single write succeeded: a step changes
\* the table only by appending the row of the request being recorded, a
\* successful write always appends, a scored request makes exactly one write
\* attempt and no request more than one, and no other step (validation or
\* scoring failures, any scan request) touches the table.
C8_StoreAppendOnly ==
    [][/\ mreq'.writes <= 1
       /\ (mpc' = "done" /\ mreq'.prediction # <<>>) => mreq'.writes = 1
       /\ \/ /\ store' = store
             /\ ~(mpc = "record" /\ mreq'.committed)
          \/ /\ mpc = "record"
             /\ mreq.prediction # <<>>
             /\ mreq'.committed
             /\ store' = Append(store,
                  [id |-> Len(store) + 1,
                   name |-> IF "name" \in DOMAIN mreq.data
                            THEN mreq.data["name"] ELSE Str(UnknownProduct),
                   calories |-> mreq.features[1], sugar |-> mreq.features[2],
                   fat |-> mreq.features[3], saturated_fat |-> mreq.features[4],
                   proteins |-> mreq.features[5], fibers |-> mreq.features[6],
                   sodium |-> mreq.features[7],
                   health_score |-> mreq.prediction[1]])]_vars

\* Two manual requests were scored; the first was written, the write of the
\* second failed, and a scan request was answered meanwhile.
C8_Witness ==
    /\ served = 2
    /\ mpc = "done"
    /\ mreq.writes = 1
    /\ ~mreq.committed
    /\ mreq.resp.kind = "ok"
    /\ Len(store) = 1
    /\ spc = "done"
    /\ sreq.prediction # <<>>

\* C9: on the manual path, a payload with all seven fields in which some
\* value cannot be coerced to a finite number (NaN and the infinities
\* included) fails with the invalid-number error, and the model is never
\* invoked on a vector that holds a non-finite value.
C9_OnlyFiniteScored ==
    /\ (/\ ObjectAnswered
        /\ MissingSet(mreq.data) = {}
        /\ \E f \in NutrientNames :
             LET v == Float(mreq.data[f]) IN v.exc # "" \/ v.k # "fin") =>
         /\ mreq.resp.kind = "invalid_number"
         /\ mreq.resp.code = 400
         /\ ~Ran(mreq, "predict")
    /\ Ran(mreq, "predict") =>
         \A i \in 1..Len(mreq.features) : mreq.features[i].k = "fin"

\* C10: no step of any manual or scan request changes the catalog.
C10_CatalogReadOnly == [][catalog' = catalog]_vars

====
